---------------------------- MODULE Spec2Model ----------------------------
(***************************************************************************)
(* A model of the two registry scripts:                                    *)
(*   scripts/consume_from_registry.py  (MCPRegistryClient and the five     *)
(*                                      discovery examples), and           *)
(*   scripts/publish_server_rest.py    (the publish / update workflow).    *)
(*                                                                         *)
(* Strings are sequences of one-character strings, so that the empty       *)
(* string (falsy in Python) and percent-encoding are explicit.  An         *)
(* Optional[x] is a sequence of length 0 (None) or 1 (the value).          *)
(* Three specifications share the variables:                               *)
(*   ClientSpec   the client methods called with arbitrary arguments,      *)
(*   ConsumeSpec  the discovery driver main() of consume_from_registry,    *)
(*   PublishSpec  main() of publish_server_rest.                           *)
(***************************************************************************)
EXTENDS Integers, Sequences, FiniteSets

VARIABLES
    \* ---- client methods called directly (ClientSpec)
    call,           \* the last call made: method name and arguments
    request,        \* Optional: the HTTP request that call issued
    outcome,        \* what the call did: returned or raised
    reply,          \* Optional: the response the registry gave to request
    \* ---- discovery workflow (ConsumeSpec)
    con_pc,         \* position of consume_from_registry.main
    catalog,        \* the registry's catalog: a sequence of pages
    cursor,         \* example 4: local variable cursor
    page,           \* example 4: local variable page
    all_servers,    \* example 4: local variable all_servers
    con_requests,   \* log of the requests issued, in order
    con_out,        \* log of the messages printed, in order
    ran,            \* examples that have been entered
    finished,       \* examples that returned normally
    failure,        \* Optional: the exception that left an example
    responses,      \* per example, the statuses the registry answered
    \* ---- publish workflow (PublishSpec)
    pub_pc,         \* position of publish_server_rest.main
    server_json,    \* the descriptor file on disk
    env_token,      \* os.environ.get('MCP_AUTH_TOKEN')
    update_mode,    \* MCP_UPDATE_MODE == 'true'
    auto_auth,      \* MCP_AUTO_AUTH == 'true'
    server_data,    \* Optional: the descriptor returned by validate_server_json
    auth_token,     \* main's local auth_token
    pub_requests,   \* log of the requests issued, in order
    pub_replies,    \* log of the registry's answers, aligned with pub_requests
    pub_out,        \* log of the messages printed, in order
    exit_code       \* Optional: the process exit code

clientVars  == <<call, request, outcome, reply>>
consumeVars == <<con_pc, catalog, cursor, page, all_servers, con_requests,
                 con_out, ran, finished, failure, responses>>
publishVars == <<pub_pc, server_json, env_token, update_mode, auto_auth,
                 server_data, auth_token, pub_requests, pub_replies, pub_out,
                 exit_code>>
vars == <<clientVars, consumeVars, publishVars>>

---------------------------------------------------------------------------
(* Bounds of the model *)

\* longest server name / version string drawn for the client methods
MaxLen == 3
\* most pages a registry catalog has
MaxPages == 3
\* most items on one catalog page
MaxPageItems == 2

---------------------------------------------------------------------------
(* Python values *)

None == <<>>
Some(x) == <<x>>

\* Python truthiness of an Optional[str]: None and "" are falsy
Truthy(o) == o # None /\ o[1] # <<>>

\* the characters strings are made of: a letter, two hex digits that are
\* also ordinary characters, and the two reserved characters '/' and '%'
Chars == {"a", "2", "F", "/", "%"}

RECURSIVE StringsOfLen(_)
StringsOfLen(n) ==
    IF n = 0 THEN {<<>>}
    ELSE {<<c>> \o s : c \in Chars, s \in StringsOfLen(n - 1)}

Strings == UNION {StringsOfLen(n) : n \in 0..MaxLen}

\* "latest"
Latest == <<"latest">>
\* "math"
Math == <<"math">>
\* 'unknown'
Unknown == <<"unknown">>

---------------------------------------------------------------------------
(* urllib.parse.quote(s, safe='') *)

\* characters quote never encodes: letters, digits and "_.-~"; the words
\* below stand for runs of such characters
Unreserved == {"a", "2", "F", "5", "latest", "math", "unknown",
               "io.modelcontextprotocol.anonymous", "mcp-math-server"}

\* the two upper-case hex digits of a character's byte
HexOf(c) ==
    CASE c = "/" -> <<"2", "F">>
      [] c = "%" -> <<"2", "5">>

QuoteChar(c) == IF c \in Unreserved THEN <<c>> ELSE <<"%">> \o HexOf(c)

RECURSIVE quote(_)
quote(s) == IF s = <<>> THEN <<>> ELSE QuoteChar(Head(s)) \o quote(Tail(s))

---------------------------------------------------------------------------
(* HTTP requests and responses *)

\* the status codes the registry answers with; 0 stands for no response at
\* all (requests raises ConnectionError or Timeout)
Statuses == {200, 201, 202, 304, 404, 500}

\* a response: its status and whether its body parses as a JSON object
Responses == [status : Statuses \cup {0}, json : BOOLEAN]

\* Response.raise_for_status(): raises HTTPError for 4xx and 5xx only
RaisesForStatus(status) == status >= 400 /\ status < 600

NoParams == [limit |-> None, version |-> None, search |-> None, cursor |-> None]

Req(method, host, path, params, auth, body) ==
    [method |-> method, host |-> host, path |-> path, params |-> params,
     auth |-> auth, body |-> body]

Returned(status) == [kind |-> "returned", exc |-> "", status |-> status]
Raised(exc, status) == [kind |-> "raised", exc |-> exc, status |-> status]

\* requests.get(...); response.raise_for_status(); return response.json()
GetJson(resp) ==
    IF resp.status = 0 THEN Raised("ConnectionError", 0)
    ELSE IF RaisesForStatus(resp.status) THEN Raised("HTTPError", resp.status)
    ELSE IF ~resp.json THEN Raised("JSONDecodeError", resp.status)
    ELSE Returned(resp.status)

---------------------------------------------------------------------------
(* MCPRegistryClient *)

\* self.api_base, as a path under registry_url
ApiBase == <<"/", "v0.1">>

ListServersParamsAlways(search, version, limit, cur) ==
    [limit |-> Some(limit), version |-> Some(version),
     search |-> search, cursor |-> cur]

\* the params dict list_servers builds
ListServersParams(search, version, limit, cur) ==
    [limit   |-> Some(limit),
     version |-> Some(version),
     search  |-> IF Truthy(search) THEN search ELSE None,
     cursor  |-> IF Truthy(cur) THEN cur ELSE None]

list_servers(search, version, limit, cur) ==
    Req("GET", "registry", ApiBase \o <<"/", "servers">>,
        ListServersParams(search, version, limit, cur), None, None)

get_server_version(server_name, version) ==
    Req("GET", "registry",
        ApiBase \o <<"/", "servers", "/">> \o quote(server_name)
                \o <<"/", "versions", "/">> \o quote(version),
        NoParams, None, None)

\* the server resource itself, without the versions endpoint
get_server_unversioned(server_name) ==
    Req("GET", "registry",
        ApiBase \o <<"/", "servers", "/">> \o quote(server_name),
        NoParams, None, None)

get_server(server_name) == get_server_version(server_name, Latest)

list_server_versions(server_name) ==
    Req("GET", "registry",
        ApiBase \o <<"/", "servers", "/">> \o quote(server_name)
                \o <<"/", "versions">>,
        NoParams, None, None)

---------------------------------------------------------------------------
(* publish_server_rest.py: the request builders and response handling *)

\* a descriptor: the fields of server.json the script reads
Descriptor(name, version) == [name |-> name, version |-> version]

\* headers["Authorization"] is set only for a truthy token
AuthHeader(token) == IF Truthy(token) THEN token ELSE None

get_auth_token_none_request ==
    Req("POST", "registry", <<"/", "v0.1", "/", "auth", "/", "none">>,
        NoParams, None, None)

schema_request ==
    Req("GET", "schema", <<"/", "schemas", "/", "server.schema.json">>,
        NoParams, None, None)

connectivity_request ==
    Req("GET", "registry", <<"/", "v0.1", "/", "servers">>, NoParams, None, None)

publish_server_request_no_body(data, token) ==
    Req("POST", "registry", <<"/", "v0.1", "/", "publish">>,
        NoParams, AuthHeader(token), None)

publish_server_request(data, token) ==
    Req("POST", "registry", <<"/", "v0.1", "/", "publish">>,
        NoParams, AuthHeader(token), Some(data))

\* the endpoint f-string of update_server_version
UpdateEndpoint(server_name, version) ==
    <<"/", "v0.1", "/", "servers", "/">> \o server_name
        \o <<"/", "versions", "/">> \o version

update_server_version_request(server_name, version, data, token) ==
    Req("PUT", "registry", UpdateEndpoint(server_name, version),
        NoParams, AuthHeader(token), Some(data))

get_server_info_request(server_name) ==
    Req("GET", "registry", <<"/", "v0.1", "/", "servers">>,
        [NoParams EXCEPT !.search = Some(server_name)], None, None)

\* what a submission does with the response, given the statuses it accepts:
\* the lines it prints and whether it returns or raises
SubmitResult(resp, expected, errLine, okLine) ==
    IF resp.status = 0
    THEN [out |-> <<>>, outcome |-> Raised("ConnectionError", 0)]
    ELSE IF resp.status \notin expected /\ ~resp.json
    THEN [out |-> <<errLine>>, outcome |-> Raised("JSONDecodeError", resp.status)]
    ELSE IF resp.status \notin expected /\ RaisesForStatus(resp.status)
    THEN [out |-> <<errLine>>, outcome |-> Raised("HTTPError", resp.status)]
    ELSE IF ~resp.json
    THEN [out |-> <<okLine>>, outcome |-> Raised("JSONDecodeError", resp.status)]
    ELSE [out |-> (IF resp.status \notin expected THEN <<errLine>> ELSE <<>>)
                      \o <<okLine>>,
          outcome |-> Returned(resp.status)]

publish_server_result(resp) ==
    SubmitResult(resp, {200, 201}, "ERROR: Publishing failed",
                 "[OK] Successfully published!")

update_server_version_result(resp) ==
    SubmitResult(resp, {200}, "ERROR: Update failed",
                 "[OK] Successfully updated!")

---------------------------------------------------------------------------
(* Initial states *)

NoCall == [op |-> "none", server_name |-> None, version |-> None,
           search |-> None, limit |-> None, cursor |-> None]

NoOutcome == [kind |-> "none", exc |-> "", status |-> 0]

ClientInit ==
    /\ call = NoCall
    /\ request = None
    /\ outcome = NoOutcome
    /\ reply = None

\* the examples of the discovery workflow
Examples == 1..5

\* the cursor the registry hands out with page i: i letters, never empty
CursorOf(i) == [k \in 1..i |-> "c"]

\* a page of the catalog: page i holds n items and an Optional next cursor
Page(i, n, next) ==
    [servers |-> [j \in 1..n |-> [page |-> i, item |-> j]], nextCursor |-> next]

\* the catalogs of n pages: every page but the last carries a non-null
\* nextCursor (the registry's own, or the empty string), the last carries none
CatalogsOf(n) ==
    {[i \in 1..n |->
        Page(i, sizes[i],
             IF i = n THEN None
             ELSE IF empty[i] THEN Some(<<>>) ELSE Some(CursorOf(i)))] :
        sizes \in [1..n -> 0..MaxPageItems],
        empty \in [1..(n - 1) -> BOOLEAN]}

Catalogs == UNION {CatalogsOf(n) : n \in 1..MaxPages}

ConsumeStart(cat) ==
    /\ con_pc = "health"
    /\ catalog = cat
    /\ cursor = None
    /\ page = 1
    /\ all_servers = <<>>
    /\ con_requests = <<>>
    /\ con_out = <<>>
    /\ ran = {}
    /\ finished = {}
    /\ failure = None
    /\ responses = [e \in Examples |-> <<>>]

ConsumeInit == \E cat \in Catalogs : ConsumeStart(cat)

\* the discovery workflow not running
ConsumeIdle == ConsumeStart(<<Page(1, 0, None)>>)

\* descriptors on disk: name and version present or absent
PubNames == {<<"a", "/", "a">>, <<"%", "2", "F">>}
PubVersions == {<<"2">>}

Descriptors ==
    {Descriptor(n, v) : n \in {None} \cup {Some(x) : x \in PubNames},
                        v \in {None} \cup {Some(x) : x \in PubVersions}}

\* server.json: malformed JSON, or a descriptor that conforms to the MCP
\* schema or not
ServerJsonFiles ==
    {[parses |-> FALSE, conforms |-> FALSE, data |-> Descriptor(None, None)]}
    \cup [parses : {TRUE}, conforms : BOOLEAN, data : Descriptors]

\* bearer tokens: unset, empty, or a token
Tokens == {None, Some(<<>>), Some(<<"t">>)}

PublishStart(file, tok, upd, auto) ==
    /\ pub_pc = "validate"
    /\ server_json = file
    /\ env_token = tok
    /\ update_mode = upd
    /\ auto_auth = auto
    /\ server_data = None
    /\ auth_token = tok
    /\ pub_requests = <<>>
    /\ pub_replies = <<>>
    /\ pub_out = <<>>
    /\ exit_code = None

PublishInit ==
    \E file \in ServerJsonFiles, tok \in Tokens, upd \in BOOLEAN, auto \in BOOLEAN :
        PublishStart(file, tok, upd, auto)

\* the publish workflow not running
PublishIdle ==
    PublishStart([parses |-> FALSE, conforms |-> FALSE, data |-> Descriptor(None, None)],
                 None, FALSE, TRUE)

---------------------------------------------------------------------------
(* ClientSpec: one call of a client method, with arguments of the caller's
   choice and a response of the registry's choice *)

\* the limit values callers pass: the defaults (30, 10), the ends of the
\* registry's range and values outside it
Limits == {-1, 0, 1, 10, 30, 100, 101}

Searches == {None, Some(<<>>), Some(Math)}
Cursors == {None, Some(<<>>), Some(CursorOf(1))}
VersionSamples == {Latest, <<"2">>, <<"2", "/", "a">>}
NameSamples == {<<"a">>, <<"a", "/", "a">>}

\* the (name, version) pairs the calls are made with
NameVersionPairs ==
    (Strings \X VersionSamples) \cup (NameSamples \X Strings)

CallListServers ==
    /\ call = NoCall
    /\ \E search \in Searches, version \in VersionSamples, limit \in Limits,
          cur \in Cursors, resp \in Responses :
        /\ call' = [op |-> "list_servers", server_name |-> None,
                    version |-> Some(version), search |-> search,
                    limit |-> Some(limit), cursor |-> cur]
        /\ request' = Some(list_servers(search, version, limit, cur))
        /\ outcome' = GetJson(resp)
        /\ reply' = Some(resp)
    /\ UNCHANGED <<consumeVars, publishVars>>

CallGetServer ==
    /\ call = NoCall
    /\ \E name \in Strings, resp \in Responses :
        /\ call' = [NoCall EXCEPT !.op = "get_server", !.server_name = Some(name)]
        /\ request' = Some(get_server(name))
        /\ outcome' = GetJson(resp)
        /\ reply' = Some(resp)
    /\ UNCHANGED <<consumeVars, publishVars>>

CallGetServerVersion ==
    /\ call = NoCall
    /\ \E nv \in NameVersionPairs, resp \in Responses :
        /\ call' = [NoCall EXCEPT !.op = "get_server_version",
                                  !.server_name = Some(nv[1]),
                                  !.version = Some(nv[2])]
        /\ request' = Some(get_server_version(nv[1], nv[2]))
        /\ outcome' = GetJson(resp)
        /\ reply' = Some(resp)
    /\ UNCHANGED <<consumeVars, publishVars>>

CallListServerVersions ==
    /\ call = NoCall
    /\ \E name \in Strings, resp \in Responses :
        /\ call' = [NoCall EXCEPT !.op = "list_server_versions",
                                  !.server_name = Some(name)]
        /\ request' = Some(list_server_versions(name))
        /\ outcome' = GetJson(resp)
        /\ reply' = Some(resp)
    /\ UNCHANGED <<consumeVars, publishVars>>

CallUpdateServerVersion ==
    /\ call = NoCall
    /\ \E nv \in NameVersionPairs, tok \in Tokens, resp \in Responses :
        /\ call' = [NoCall EXCEPT !.op = "update_server_version",
                                  !.server_name = Some(nv[1]),
                                  !.version = Some(nv[2])]
        /\ request' = Some(update_server_version_request(
                               nv[1], nv[2],
                               Descriptor(Some(nv[1]), Some(nv[2])), tok))
        /\ outcome' = update_server_version_result(resp).outcome
        /\ reply' = Some(resp)
    /\ UNCHANGED <<consumeVars, publishVars>>

ClientNext ==
    \/ CallListServers
    \/ CallGetServer
    \/ CallGetServerVersion
    \/ CallListServerVersions
    \/ CallUpdateServerVersion

ClientSpecInit == ClientInit /\ ConsumeIdle /\ PublishIdle

ClientSpec == ClientSpecInit /\ [][ClientNext]_vars

---------------------------------------------------------------------------
(* Reading a request path back: its segments, and percent-decoding *)

HexDigits == {"a", "2", "F", "5"}

\* the character a %XX escape stands for; a byte of 0x80 and above alone is
\* no valid UTF-8 and decodes to the replacement character
Decode(h1, h2) ==
    CASE h1 = "2" /\ h2 = "F" -> "/"
      [] h1 = "2" /\ h2 = "5" -> "%"
      [] h1 = "2" /\ h2 = "2" -> "\""
      [] h1 = "2" /\ h2 = "a" -> "*"
      [] h1 = "5" /\ h2 = "2" -> "R"
      [] h1 = "5" /\ h2 = "5" -> "U"
      [] h1 = "5" /\ h2 = "a" -> "Z"
      [] h1 = "5" /\ h2 = "F" -> "_"
      [] OTHER -> "U+FFFD"

\* urllib.parse.unquote
RECURSIVE unquote(_)
unquote(s) ==
    IF s = <<>> THEN <<>>
    ELSE IF Head(s) = "%" /\ Len(s) >= 3 /\ s[2] \in HexDigits /\ s[3] \in HexDigits
    THEN <<Decode(s[2], s[3])>> \o unquote(SubSeq(s, 4, Len(s)))
    ELSE <<Head(s)>> \o unquote(Tail(s))

\* the segments of a path: what stands between its '/' characters
RECURSIVE Split(_)
Split(s) ==
    IF s = <<>> THEN << <<>> >>
    ELSE LET rest == Split(Tail(s))
         IN  IF Head(s) = "/" THEN << <<>> >> \o rest
             ELSE << <<Head(s)>> \o rest[1] >> \o Tail(rest)

\* the path /v0.1/servers/{name}/versions[/{version}] holds the name as its
\* fourth segment and the version as its sixth (the first is empty)
NameInOneSegment(path, name) ==
    LET segs == Split(path)
    IN  /\ Len(segs) \in {5, 6}
        /\ segs[2] = <<"v0.1">> /\ segs[3] = <<"servers">> /\ segs[5] = <<"versions">>
        /\ unquote(segs[4]) = name

VersionInOneSegment(path, version) ==
    LET segs == Split(path)
    IN  /\ Len(segs) = 6
        /\ unquote(segs[6]) = version

---------------------------------------------------------------------------
(* Claims about the client methods, under ClientSpec *)

InRange(limit) == limit >= 1 /\ limit <= 100

\* C9, as stated: every request of listServers carries a limit within 1..100
\* whatever the caller passes, no search parameter when search is absent and
\* no cursor parameter when cursor is absent.
C9_LimitConstrained ==
    call.op = "list_servers" =>
        /\ InRange(request[1].params.limit[1])
        /\ (call.search = None => request[1].params.search = None)
        /\ (call.cursor = None => request[1].params.cursor = None)

\* C9, amended: the request of listServers carries the caller's limit
\* unchanged (so a limit outside 1..100 goes out as it is), the version
\* filter unchanged, the search and the cursor exactly when they are given
\* and non-empty, and neither of them when absent or empty.
C9_LimitPassedThrough ==
    call.op = "list_servers" =>
        LET params == request[1].params
        IN  /\ params.limit = call.limit
            /\ params.version = call.version
            /\ (InRange(params.limit[1]) <=> InRange(call.limit[1]))
            /\ params.search = (IF Truthy(call.search) THEN call.search ELSE None)
            /\ params.cursor = (IF Truthy(call.cursor) THEN call.cursor ELSE None)

\* a listServers call with a limit above the range and no search or cursor
C9_Witness ==
    /\ call.op = "list_servers"
    /\ call.limit = Some(101)
    /\ call.search = None /\ call.cursor = None
    /\ request[1].params.limit = Some(101)
    /\ request[1].params.search = None /\ request[1].params.cursor = None

\* C10, as stated: in getServerVersion, listServerVersions and the update PUT
\* the name (and the version) is percent-encoded into a single path segment
\* that decodes to the original string.
C10_PathSegmentsRoundTrip ==
    call.op \in {"get_server_version", "list_server_versions",
                 "update_server_version"} =>
        /\ NameInOneSegment(request[1].path, call.server_name[1])
        /\ (call.version # None =>
                VersionInOneSegment(request[1].path, call.version[1]))

\* the part of C10 that the client class satisfies: getServer,
\* getServerVersion and listServerVersions encode the name and the version
ClientPathSegmentsRoundTrip ==
    call.op \in {"get_server", "get_server_version", "list_server_versions"} =>
        /\ NameInOneSegment(request[1].path, call.server_name[1])
        /\ (call.version # None =>
                VersionInOneSegment(request[1].path, call.version[1]))

\* what a lookup of the latest version of name does when the registry
\* answers with resp: one GET of /v0.1/servers/{name}/versions/latest, then
\* the decoded body, or the HTTP error, or the failure to get or decode one
LatestLookup(name, resp) ==
    [request |->
        [method |-> "GET", host |-> "registry",
         path |-> <<"/", "v0.1", "/", "servers", "/">> \o quote(name)
                      \o <<"/", "versions", "/", "latest">>,
         params |-> NoParams, auth |-> None, body |-> None],
     outcome |->
        IF resp.status = 0 THEN Raised("ConnectionError", 0)
        ELSE IF resp.status >= 400 THEN Raised("HTTPError", resp.status)
        ELSE IF resp.json THEN Returned(resp.status)
        ELSE Raised("JSONDecodeError", resp.status)]

\* C11: for every server name, getServer(name) behaves as
\* getServerVersion(name, "latest"): given the same answer of the registry,
\* both issue the same single request (same path, version segment 'latest')
\* and give the same result or the same failure.
C11_GetServerIsLatestVersion ==
    \/ call.op = "get_server"
    \/ call.op = "get_server_version" /\ call.version = Some(Latest)
    => /\ request = Some(LatestLookup(call.server_name[1], reply[1]).request)
       /\ outcome = LatestLookup(call.server_name[1], reply[1]).outcome
       /\ Split(request[1].path)[6] = Latest
       /\ Len(Split(request[1].path)) = 6

\* getServer of a name with a '/' in it, answered 404
C11_Witness ==
    /\ call.op = "get_server"
    /\ call.server_name = Some(<<"a", "/", "a">>)
    /\ outcome = Raised("HTTPError", 404)
    /\ request = Some(get_server_version(<<"a", "/", "a">>, Latest))

---------------------------------------------------------------------------
(* PublishSpec: publish_server_rest.main, one action per HTTP exchange *)

\* the registry's answer as logged: the response and, for /auth/none, the
\* registry_token field of its body (has = the key is present)
Reply(resp, has, token) ==
    [status |-> resp.status, json |-> resp.json, has |-> has, token |-> token]

\* the bodies /auth/none answers with: no registry_token key, null, "" or a
\* token
AuthBodies ==
    {[has |-> FALSE, token |-> None]}
    \cup [has : {TRUE}, token : {None, Some(<<>>), Some(<<"g">>)}]

\* dict.get(key, default)
Get(field, default) == IF field = None THEN default ELSE field[1]

\* main's server_name and server_version
server_name == Get(server_data[1].name, Unknown)
server_version == Get(server_data[1].version, Unknown)

PubTerminal == {"done", "failed", "interrupted"}

\* an exception leaves main: the interpreter prints the traceback and the
\* process exits with code 1
Fail(reqs, reps, lines) ==
    /\ pub_pc' = "failed"
    /\ pub_requests' = reqs
    /\ pub_replies' = reps
    /\ pub_out' = pub_out \o lines \o <<"Traceback">>
    /\ exit_code' = Some(1)
    /\ UNCHANGED <<server_data, auth_token>>

\* main goes on to its next step
Proceed(pc, reqs, reps, lines) ==
    /\ pub_pc' = pc
    /\ pub_requests' = reqs
    /\ pub_replies' = reps
    /\ pub_out' = pub_out \o lines
    /\ UNCHANGED exit_code

\* the condition of main's "Get authentication token if not provided"
NeedsAutoAuthAlways == TRUE

NeedsAutoAuth == ~Truthy(auth_token) /\ auto_auth

\* the condition of main's "Publish or update"
SubmitsUpdateInverted == ~update_mode

SubmitsUpdate == update_mode

\* validate_server_json: load the file, fetch the schema, validate
Validate ==
    /\ pub_pc = "validate"
    /\ IF ~server_json.parses
       THEN Fail(pub_requests, pub_replies, <<>>)
       ELSE \E resp \in Responses :
            LET reqs == Append(pub_requests, schema_request)
                reps == Append(pub_replies, Reply(resp, FALSE, None))
            IN  IF GetJson(resp).kind = "raised" \/ ~server_json.conforms
                THEN Fail(reqs, reps, <<>>)
                ELSE /\ Proceed("connectivity", reqs, reps,
                                <<"[OK] Validation successful!">>)
                     /\ server_data' = Some(server_json.data)
                     /\ UNCHANGED auth_token
    /\ UNCHANGED <<server_json, env_token, update_mode, auto_auth>>
    /\ UNCHANGED <<clientVars, consumeVars>>

\* requests.get raised, or raise_for_status did
ConnectivityFailsNoResponseOnly(resp) == resp.status = 0

ConnectivityFails(resp) == resp.status = 0 \/ RaisesForStatus(resp.status)

\* "Check if registry is accessible": GET /v0.1/servers, raise_for_status
CheckConnectivity ==
    /\ pub_pc = "connectivity"
    /\ \E resp \in Responses :
        LET reqs == Append(pub_requests, connectivity_request)
            reps == Append(pub_replies, Reply(resp, FALSE, None))
        IN  IF ConnectivityFails(resp)
            THEN Fail(reqs, reps, <<>>)
            ELSE /\ Proceed(IF NeedsAutoAuth THEN "auth" ELSE "submit",
                            reqs, reps, <<"[OK] Registry is accessible">>)
                 /\ UNCHANGED <<server_data, auth_token>>
    /\ UNCHANGED <<server_json, env_token, update_mode, auto_auth>>
    /\ UNCHANGED <<clientVars, consumeVars>>

\* get_auth_token_none and the line of main that prints the token
GetAuthToken ==
    /\ pub_pc = "auth"
    /\ \E resp \in Responses, body \in AuthBodies :
        LET reqs == Append(pub_requests, get_auth_token_none_request)
            reps == Append(pub_replies, Reply(resp, body.has, body.token))
        IN  IF GetJson(resp).kind = "raised" \/ ~body.has
            THEN Fail(reqs, reps, <<>>)
            ELSE IF body.token = None
            THEN \* auth_token[:20] of None: TypeError
                 /\ pub_pc' = "failed"
                 /\ pub_requests' = reqs
                 /\ pub_replies' = reps
                 /\ pub_out' = pub_out \o <<"[OK] Got auth token", "Traceback">>
                 /\ exit_code' = Some(1)
                 /\ auth_token' = None
                 /\ UNCHANGED server_data
            ELSE /\ Proceed("submit", reqs, reps,
                            <<"[OK] Got auth token", "[OK] Using auto-generated token">>)
                 /\ auth_token' = body.token
                 /\ UNCHANGED server_data
    /\ UNCHANGED <<server_json, env_token, update_mode, auto_auth>>
    /\ UNCHANGED <<clientVars, consumeVars>>

\* the else branch of "Publish or update": publish_server
PublishServer ==
    /\ pub_pc = "submit"
    /\ ~SubmitsUpdate
    /\ \E resp \in Responses :
        LET reqs == Append(pub_requests,
                           publish_server_request(server_data[1], auth_token))
            reps == Append(pub_replies, Reply(resp, FALSE, None))
            res  == publish_server_result(resp)
        IN  IF res.outcome.kind = "raised"
            THEN Fail(reqs, reps, <<"PUBLISH MODE">> \o res.out)
            ELSE /\ Proceed("verify", reqs, reps, <<"PUBLISH MODE">> \o res.out)
                 /\ UNCHANGED <<server_data, auth_token>>
    /\ UNCHANGED <<server_json, env_token, update_mode, auto_auth>>
    /\ UNCHANGED <<clientVars, consumeVars>>

\* the then branch of "Publish or update": update_server_version
UpdateServerVersion ==
    /\ pub_pc = "submit"
    /\ SubmitsUpdate
    /\ \E resp \in Responses :
        LET reqs == Append(pub_requests,
                           update_server_version_request(
                               server_name, server_version,
                               server_data[1], auth_token))
            reps == Append(pub_replies, Reply(resp, FALSE, None))
            res  == update_server_version_result(resp)
        IN  IF res.outcome.kind = "raised"
            THEN Fail(reqs, reps, <<"UPDATE MODE">> \o res.out)
            ELSE /\ Proceed("verify", reqs, reps, <<"UPDATE MODE">> \o res.out)
                 /\ UNCHANGED <<server_data, auth_token>>
    /\ UNCHANGED <<server_json, env_token, update_mode, auto_auth>>
    /\ UNCHANGED <<clientVars, consumeVars>>

\* "Verify publication": get_server_info, then SUCCESS and return 0
Verify ==
    /\ pub_pc = "verify"
    /\ \E resp \in Responses :
        LET reqs == Append(pub_requests, get_server_info_request(server_name))
            reps == Append(pub_replies, Reply(resp, FALSE, None))
        IN  IF GetJson(resp).kind = "raised"
            THEN Fail(reqs, reps, <<"Verifying publication...">>)
            ELSE /\ pub_pc' = "done"
                 /\ pub_requests' = reqs
                 /\ pub_replies' = reps
                 /\ pub_out' = pub_out \o <<"Verifying publication...",
                                            "[OK] Server is now visible in registry!",
                                            "SUCCESS">>
                 /\ exit_code' = Some(0)
                 /\ UNCHANGED <<server_data, auth_token>>
    /\ UNCHANGED <<server_json, env_token, update_mode, auto_auth>>
    /\ UNCHANGED <<clientVars, consumeVars>>

\* KeyboardInterrupt while main runs: "Interrupted by user", exit code 1
Interrupt ==
    /\ pub_pc \notin PubTerminal
    /\ pub_pc' = "interrupted"
    /\ pub_out' = Append(pub_out, "Interrupted by user")
    /\ exit_code' = Some(1)
    /\ UNCHANGED <<server_json, env_token, update_mode, auto_auth, server_data,
                   auth_token, pub_requests, pub_replies>>
    /\ UNCHANGED <<clientVars, consumeVars>>

PublishNext ==
    \/ Validate
    \/ CheckConnectivity
    \/ GetAuthToken
    \/ PublishServer
    \/ UpdateServerVersion
    \/ Verify
    \/ Interrupt

PublishSpecInit == ClientInit /\ ConsumeIdle /\ PublishInit

PublishSpec == PublishSpecInit /\ [][PublishNext]_vars

---------------------------------------------------------------------------
(* Claims about the publish workflow, under PublishSpec *)

PublishPath == <<"/", "v0.1", "/", "publish">>

IsPublishPost(r) == r.method = "POST" /\ r.path = PublishPath
IsUpdatePut(r) == r.method = "PUT"
SideEffecting(r) == r.method \in {"POST", "PUT"}

\* where in the log the requests of each step stand
SubmissionIdx ==
    {i \in DOMAIN pub_requests :
        IsPublishPost(pub_requests[i]) \/ IsUpdatePut(pub_requests[i])}
AuthIdx == {i \in DOMAIN pub_requests : pub_requests[i] = get_auth_token_none_request}
ConnectivityIdx == {i \in DOMAIN pub_requests : pub_requests[i] = connectivity_request}
VerifyIdx ==
    {i \in DOMAIN pub_requests :
        pub_requests[i].method = "GET" /\ pub_requests[i].params.search # None}

Printed(line) == \E i \in DOMAIN pub_out : pub_out[i] = line

\* C1: a run that reaches submission makes one submission request: in update
\* mode a PUT to /v0.1/servers/{name}/versions/{version}, otherwise a POST to
\* /v0.1/publish, and never a request to the other endpoint.
C1_ModeSelectsEndpoint ==
    /\ Cardinality(SubmissionIdx) <= 1
    /\ pub_pc \in {"verify", "done"} => SubmissionIdx # {}
    /\ \A i \in DOMAIN pub_requests :
        LET r == pub_requests[i]
        IN  /\ update_mode => ~IsPublishPost(r)
            /\ ~update_mode => ~IsUpdatePut(r)
            /\ i \in SubmissionIdx /\ update_mode =>
                /\ r.method = "PUT"
                /\ r.path = <<"/", "v0.1", "/", "servers", "/">> \o server_name
                              \o <<"/", "versions", "/">> \o server_version
            /\ i \in SubmissionIdx /\ ~update_mode =>
                /\ r.method = "POST"
                /\ r.path = <<"/", "v0.1", "/", "publish">>

\* an update-mode run that made its PUT and ended with exit code 0
C1_Witness ==
    /\ update_mode
    /\ pub_pc = "done"
    /\ \E i \in SubmissionIdx : IsUpdatePut(pub_requests[i])

\* validation failed: main never got the descriptor
ValidationFailed == pub_pc = "failed" /\ server_data = None
\* the connectivity check failed: it is the last request of a failed run
ConnectivityFailed ==
    /\ pub_pc = "failed"
    /\ Len(pub_requests) = 2
    /\ pub_requests[2] = connectivity_request

EarlyFailureIsClean ==
    ValidationFailed \/ ConnectivityFailed =>
        /\ exit_code = Some(1)
        /\ \A i \in DOMAIN pub_requests : ~SideEffecting(pub_requests[i])

\* C2, as stated: a POST or PUT is issued only after validation succeeded and
\* the connectivity check returned a 2xx status; a failed validation or
\* connectivity check ends the run non-zero with no POST or PUT.
C2_SideEffectsOnlyAfter2xx ==
    /\ \A i \in DOMAIN pub_requests :
        SideEffecting(pub_requests[i]) =>
            /\ server_data # None
            /\ \E j \in ConnectivityIdx :
                /\ j < i
                /\ pub_replies[j].status >= 200 /\ pub_replies[j].status < 300
    /\ EarlyFailureIsClean

\* C2, amended: a POST or PUT is issued only after validation succeeded and
\* the connectivity check got a response that raise_for_status accepts (any
\* status outside 400..599, a 3xx included); a failed validation or
\* connectivity check ends the run with exit code 1 and no POST or PUT.
C2_SideEffectsOnlyAfterChecks ==
    /\ \A i \in DOMAIN pub_requests :
        SideEffecting(pub_requests[i]) =>
            /\ server_data # None
            /\ server_json.parses /\ server_json.conforms
            /\ \E j \in ConnectivityIdx :
                /\ j < i
                /\ pub_replies[j].status # 0
                /\ ~(pub_replies[j].status >= 400 /\ pub_replies[j].status < 600)
    /\ EarlyFailureIsClean

\* a submission made after a connectivity check answered 304
C2_Witness ==
    /\ SubmissionIdx # {}
    /\ \E j \in ConnectivityIdx : pub_replies[j].status = 304

\* the statuses a submission expects
ExpectedStatuses == IF update_mode THEN {200} ELSE {200, 201}

\* C3, as stated: a submission response with another status than the expected
\* one is fatal: no verification, no SUCCESS, no exit code 0.
C3_UnexpectedStatusIsFatal ==
    \A i \in SubmissionIdx :
        pub_replies[i].status # 0 /\ pub_replies[i].status \notin ExpectedStatuses =>
            /\ VerifyIdx = {}
            /\ ~Printed("SUCCESS")
            /\ exit_code # Some(0)

\* no request is issued twice
NoRequestRepeated ==
    \A i, j \in DOMAIN pub_requests : i # j => pub_requests[i] # pub_requests[j]

\* C7: in publish mode, once the registry answered the publish request with
\* 200 or 201, the run has made exactly one POST to /v0.1/publish, with the
\* loaded descriptor as its body; no request is ever repeated; and when the
\* verification completes the process exits with code 0.
C7_PublishOnceExitZero ==
    /\ NoRequestRepeated
    /\ \A i \in DOMAIN pub_requests :
        /\ ~update_mode
        /\ IsPublishPost(pub_requests[i])
        /\ pub_replies[i].status \in {200, 201}
        => /\ SubmissionIdx = {i}
           /\ {k \in DOMAIN pub_requests : pub_requests[k].path = PublishPath} = {i}
           /\ pub_requests[i].body = Some(server_json.data)
           /\ \A j \in VerifyIdx :
                pub_replies[j].status \in {200, 201, 202, 304} /\ pub_replies[j].json
                => pub_pc = "done" /\ exit_code = Some(0)
           /\ pub_pc = "done" => exit_code = Some(0) /\ VerifyIdx # {}

\* a publish-mode run answered 201 that verified and exited with code 0
C7_Witness ==
    /\ ~update_mode
    /\ pub_pc = "done" /\ exit_code = Some(0)
    /\ \E i \in SubmissionIdx :
        /\ pub_replies[i].status = 201
        /\ pub_requests[i].body = Some(server_json.data)

\* the token /auth/none returned
ReturnedToken == pub_replies[CHOOSE i \in AuthIdx : TRUE].token

AuthNoneOrder ==
    /\ Cardinality(AuthIdx) <= 1
    /\ \A i \in AuthIdx :
        /\ \E j \in ConnectivityIdx : j < i
        /\ \A k \in SubmissionIdx : i < k

\* a token was supplied: MCP_AUTH_TOKEN is set and not empty (what main
\* prints as "Set (from env)")
Supplied == Truthy(env_token)

\* C8, as stated: /auth/none is requested exactly when no token was supplied
\* and auto-auth is on, at most once, after the connectivity check and before
\* submission, and the submission carries the returned token as its bearer
\* token; a supplied token means no /auth/none and is carried by the
\* submission; no token and no auto-auth means no Authorization header.
C8_AuthNoneWhenNoToken ==
    /\ AuthNoneOrder
    /\ AuthIdx # {} => ~Supplied /\ auto_auth
    /\ \A k \in SubmissionIdx :
        LET r == pub_requests[k]
        IN  /\ ~Supplied /\ auto_auth =>
                AuthIdx # {} /\ r.auth # None /\ r.auth = ReturnedToken
            /\ Supplied => AuthIdx = {} /\ r.auth = env_token
            /\ ~Supplied /\ ~auto_auth => AuthIdx = {} /\ r.auth = None

\* C8, amended: as stated, except that the submission carries the returned
\* token as its bearer token only when that token is non-empty; when
\* /auth/none returns the empty string the submission is sent with no
\* Authorization header.  (Supplied means set and non-empty.)
C8_AuthNoneWhenNoTruthyToken ==
    /\ AuthNoneOrder
    /\ AuthIdx # {} => ~Supplied /\ auto_auth
    /\ \A k \in SubmissionIdx :
        LET r == pub_requests[k]
        IN  /\ ~Supplied /\ auto_auth =>
                /\ AuthIdx # {}
                /\ ReturnedToken # None
                /\ ReturnedToken # Some(<<>>) => r.auth = ReturnedToken
                /\ ReturnedToken = Some(<<>>) => r.auth = None
            /\ Supplied => AuthIdx = {} /\ r.auth = env_token
            /\ ~Supplied /\ ~auto_auth => AuthIdx = {} /\ r.auth = None

\* a submission that carries the token /auth/none returned
C8_Witness ==
    /\ env_token = None /\ auto_auth
    /\ AuthIdx # {}
    /\ \E k \in SubmissionIdx :
        pub_requests[k].auth = Some(<<"g">>) /\ ReturnedToken = Some(<<"g">>)

---------------------------------------------------------------------------
(* ConsumeSpec: consume_from_registry.main, one action per HTTP exchange *)

\* main's server_name: "io.modelcontextprotocol.anonymous/mcp-math-server"
ExampleServer == <<"io.modelcontextprotocol.anonymous", "/", "mcp-math-server">>

\* what the registry answers the discovery workflow with
ConsumeResponses == [status : {0, 200, 404, 500}, json : BOOLEAN]

health_request == Req("GET", "registry", <<"/", "health">>, NoParams, None, None)

\* the example that follows example k in main's try block
NextPc(k) ==
    CASE k = 1 -> "ex2"
      [] k = 2 -> "ex3"
      [] k = 3 -> "ex4"
      [] k = 4 -> "ex5"
      [] k = 5 -> "done"

\* where main goes when an exception leaves example k: its except clause
AfterRaiseContinue(k) == NextPc(k)

AfterRaise(k) == "aborted"

\* the except clauses of examples 2, 3 and 5: a 404 is handled
Handles404Never(o) == FALSE

Handles404(o) == o.exc = "HTTPError" /\ o.status = 404

\* example k issued req, got resp, printed lines, and returned (exc = None)
\* or let an exception out (exc = Some(outcome))
Leave(k, req, resp, lines, exc) ==
    /\ con_requests' = Append(con_requests, [example |-> k, req |-> req])
    /\ responses' = [responses EXCEPT ![k] = Append(@, resp.status)]
    /\ ran' = ran \cup {k}
    /\ IF exc = None
       THEN /\ finished' = finished \cup {k}
            /\ con_pc' = NextPc(k)
            /\ con_out' = con_out \o lines
                   \o (IF k = 5 THEN <<"All examples completed successfully!">>
                       ELSE <<>>)
            /\ UNCHANGED failure
       ELSE /\ failure' = Some([example |-> k, exc |-> exc[1].exc,
                                status |-> exc[1].status])
            /\ con_pc' = AfterRaise(k)
            /\ con_out' = con_out \o lines \o <<"Error">>
            /\ UNCHANGED finished

\* "Check registry connectivity": any response will do, no response returns
HealthCheck ==
    /\ con_pc = "health"
    /\ \E resp \in ConsumeResponses :
        /\ con_requests' = Append(con_requests, [example |-> 0, req |-> health_request])
        /\ IF resp.status = 0
           THEN /\ con_pc' = "unreachable"
                /\ con_out' = Append(con_out, "Cannot connect to registry")
           ELSE /\ con_pc' = "ex1"
                /\ con_out' = Append(con_out, "Registry is accessible")
    /\ UNCHANGED <<catalog, cursor, page, all_servers, ran, finished, failure,
                   responses>>
    /\ UNCHANGED <<clientVars, publishVars>>

\* example_1_search_servers
Example1 ==
    /\ con_pc = "ex1"
    /\ \E resp \in ConsumeResponses :
        LET o == GetJson(resp)
        IN  Leave(1, list_servers(Some(Math), Latest, 10, None), resp,
                  IF o.kind = "raised" THEN <<>> ELSE <<"Found servers">>,
                  IF o.kind = "raised" THEN Some(o) ELSE None)
    /\ UNCHANGED <<catalog, cursor, page, all_servers>>
    /\ UNCHANGED <<clientVars, publishVars>>

\* an example that looks one server up inside try / except HTTPError
Lookup(k, req, okLine, notFoundLine) ==
    \E resp \in ConsumeResponses :
        LET o == GetJson(resp)
        IN  IF o.kind = "returned" THEN Leave(k, req, resp, <<okLine>>, None)
            ELSE IF Handles404(o) THEN Leave(k, req, resp, <<notFoundLine>>, None)
            ELSE Leave(k, req, resp, <<>>, Some(o))

\* example_2_get_specific_server
Example2 ==
    /\ con_pc = "ex2"
    /\ Lookup(2, get_server(ExampleServer), "server info", "not found in registry")
    /\ UNCHANGED <<catalog, cursor, page, all_servers>>
    /\ UNCHANGED <<clientVars, publishVars>>

\* example_3_list_versions
Example3 ==
    /\ con_pc = "ex3"
    /\ Lookup(3, list_server_versions(ExampleServer), "Available versions", "not found")
    /\ UNCHANGED <<catalog, cursor, page, all_servers>>
    /\ UNCHANGED <<clientVars, publishVars>>

\* the page the registry serves for a cursor parameter: the first without
\* one, otherwise the page after the one that handed the cursor out
PageFor(cur) ==
    IF cur = None \/ ~\E i \in 1..(Len(catalog) - 1) : catalog[i].nextCursor = cur
    THEN catalog[1]
    ELSE catalog[(CHOOSE i \in 1..(Len(catalog) - 1) : catalog[i].nextCursor = cur) + 1]

\* the test that ends the loop of example 4: "if not cursor: break"
LoopEnds(next) == ~Truthy(next)

\* all_servers.extend(servers)
AccumulateLastPageOnly(acc, servers) == servers

Accumulate(acc, servers) == acc \o servers

\* example_4_list_all_servers: one turn of its while loop
Example4Page ==
    /\ con_pc = "ex4"
    /\ \E resp \in ConsumeResponses :
        LET req == list_servers(None, Latest, 10, cursor)
            o   == GetJson(resp)
            pg  == PageFor(req.params.cursor)
        IN  IF o.kind = "raised"
            THEN /\ Leave(4, req, resp, <<>>, Some(o))
                 /\ UNCHANGED <<cursor, page, all_servers>>
            ELSE /\ all_servers' = Accumulate(all_servers, pg.servers)
                 /\ cursor' = pg.nextCursor
                 /\ IF LoopEnds(pg.nextCursor)
                    THEN /\ Leave(4, req, resp, <<"Page", "Total servers in registry">>, None)
                         /\ UNCHANGED page
                    ELSE /\ page' = page + 1
                         /\ con_requests' = Append(con_requests, [example |-> 4, req |-> req])
                         /\ responses' = [responses EXCEPT ![4] = Append(@, resp.status)]
                         /\ ran' = ran \cup {4}
                         /\ con_out' = Append(con_out, "Page")
                         /\ UNCHANGED <<con_pc, finished, failure>>
    /\ UNCHANGED catalog
    /\ UNCHANGED <<clientVars, publishVars>>

\* example_5_installation_info
Example5 ==
    /\ con_pc = "ex5"
    /\ Lookup(5, get_server(ExampleServer), "Installation Guide", "not found")
    /\ UNCHANGED <<catalog, cursor, page, all_servers>>
    /\ UNCHANGED <<clientVars, publishVars>>

ConsumeNext ==
    \/ HealthCheck
    \/ Example1
    \/ Example2
    \/ Example3
    \/ Example4Page
    \/ Example5

ConsumeSpecInit == ClientInit /\ ConsumeInit /\ PublishIdle

ConsumeSpec == ConsumeSpecInit /\ [][ConsumeNext]_vars

\* the same, with every request answered in the end (by a response or by an
\* exception), so that the workflow keeps taking steps while it can
ConsumeFairSpec == ConsumeSpecInit /\ [][ConsumeNext]_vars /\ WF_vars(ConsumeNext)

---------------------------------------------------------------------------
(* Claims about the discovery workflow, under ConsumeSpec *)

ConTerminal == {"done", "aborted", "unreachable"}

\* an HTTP error other than 404 left an example
HttpFailure ==
    /\ failure # None
    /\ failure[1].exc = "HTTPError"
    /\ failure[1].status # 404

ConPrinted(line) == \E i \in DOMAIN con_out : con_out[i] = line

\* C4, as stated: when an example fails with an HTTP error other than 404,
\* the examples that come after it in the driver still run.
C4_SiblingsStillRun ==
    HttpFailure /\ con_pc \in ConTerminal =>
        \A j \in Examples : j > failure[1].example => j \in ran

\* C4, amended: when an example fails with an HTTP error other than 404, the
\* failure aborts the rest of that example and every example after it: main's
\* one try block catches it, prints the error and returns, no later example
\* is entered and no further request is issued.
C4_FailureAbortsDriver ==
    HttpFailure =>
        /\ con_pc = "aborted"
        /\ failure[1].example \notin finished
        /\ \A j \in Examples : j > failure[1].example => j \notin ran
        /\ con_requests[Len(con_requests)].example = failure[1].example
        /\ con_out[Len(con_out)] = "Error"
        /\ ~ConPrinted("All examples completed successfully!")

\* example 2 failed with a 500 after example 1 had completed
C4_Witness ==
    /\ failure = Some([example |-> 2, exc |-> "HTTPError", status |-> 500])
    /\ con_pc = "aborted"
    /\ 1 \in finished
    /\ 3 \notin ran

\* the single-server lookups
Lookups == {2, 3, 5}

NotFoundLines == {"not found in registry", "not found"}

\* C5: a 404 answer to the lookup of example 2, 3 or 5 is caught inside the
\* example: a not-found message is printed, no exception leaves the example,
\* and the driver goes on to the next example (after example 5, to its end).
C5_NotFoundIsCaught ==
    /\ \A k \in Lookups :
        responses[k] = <<404>> =>
            /\ k \in finished
            /\ failure = None \/ failure[1].example # k
            /\ con_pc = NextPc(k) \/ (k < 5 /\ (k + 1) \in ran)
            /\ k = 5 => con_pc = "done"
                        /\ ConPrinted("All examples completed successfully!")
    /\ Cardinality({i \in DOMAIN con_out : con_out[i] \in NotFoundLines})
         = Cardinality({k \in Lookups : responses[k] = <<404>>})

\* examples 2 and 5 were both answered 404 and the driver reached its end
C5_Witness ==
    /\ responses[2] = <<404>>
    /\ responses[5] = <<404>>
    /\ con_pc = "done"
    /\ ConPrinted("not found in registry")

\* the requests example 4 issued, in order
IsExample4(e) == e.example = 4
Ex4Requests == SelectSeq(con_requests, IsExample4)

\* the items of pages 1..n, in page order
RECURSIVE ConcatPages(_, _)
ConcatPages(cat, n) ==
    IF n = 0 THEN <<>> ELSE ConcatPages(cat, n - 1) \o cat[n].servers

\* each call after the first carries the cursor the previous page returned
CursorsChain ==
    \A i \in DOMAIN Ex4Requests :
        Ex4Requests[i].req.params.cursor =
            (IF i = 1 THEN None ELSE catalog[i - 1].nextCursor)

\* the first page whose nextCursor is none or empty
FirstFalsy ==
    CHOOSE i \in 1..Len(catalog) :
        /\ ~Truthy(catalog[i].nextCursor)
        /\ \A j \in 1..(i - 1) : Truthy(catalog[j].nextCursor)

AllCursorsNonEmpty ==
    \A i \in 1..(Len(catalog) - 1) : Truthy(catalog[i].nextCursor)

\* C6, as stated: against a catalog of N pages, each but the last returning a
\* non-null nextCursor and the last none, the enumeration ends after exactly
\* N listServers calls, each after the first carrying the previous cursor,
\* with the concatenation of the pages' items accumulated.
C6_EnumerationCoversCatalog ==
    4 \in finished =>
        /\ Len(Ex4Requests) = Len(catalog)
        /\ CursorsChain
        /\ all_servers = ConcatPages(catalog, Len(catalog))

\* what the enumeration has done so far, and what it has done at its end
EnumerationStopsAtFirstEmptyCursor ==
    /\ con_pc = "ex4" =>
        /\ Len(Ex4Requests) = page - 1
        /\ page <= FirstFalsy
        /\ all_servers = ConcatPages(catalog, page - 1)
    /\ 4 \in finished =>
        /\ Len(Ex4Requests) = FirstFalsy
        /\ CursorsChain
        /\ all_servers = ConcatPages(catalog, FirstFalsy)
        /\ AllCursorsNonEmpty =>
            /\ Len(Ex4Requests) = Len(catalog)
            /\ all_servers = ConcatPages(catalog, Len(catalog))

\* C6, amended: the same for a catalog whose pages but the last return a
\* non-empty nextCursor; an empty-string nextCursor counts as none and ends
\* the enumeration at that page.  While the loop runs it has made page - 1
\* calls and page never passes the first page without a cursor; and the
\* enumeration, once entered, is always left in the end.
C6_EnumerationTerminates ==
    /\ []EnumerationStopsAtFirstEmptyCursor
    /\ (con_pc = "ex4") ~> (con_pc \in {"ex5", "aborted"})

\* a catalog of three pages with items, enumerated in three calls
C6_Witness ==
    /\ 4 \in finished
    /\ Len(catalog) = 3
    /\ AllCursorsNonEmpty
    /\ Len(Ex4Requests) = 3
    /\ Len(all_servers) >= 3
    /\ all_servers = ConcatPages(catalog, 3)

====
